---- MODULE Spec2Model ----
(***************************************************************************)
(* A model of the lsh shell of src/main.c: the read / split / execute loop *)
(* (lsh_loop), the tokenizer (lsh_split_line, with strtok's behaviour), the *)
(* dispatcher (lsh_execute), the built-ins (lsh_cd, lsh_help, lsh_exit) and *)
(* the process launcher (lsh_launch) together with the children it forks.  *)
(*                                                                         *)
(* Characters are their ASCII codes, a C string is the run of characters   *)
(* from a pointer up to the next 0 byte, a pointer into the line buffer is *)
(* a 1-based index into it and the null pointer is 0.                      *)
(***************************************************************************)
EXTENDS Integers, Sequences, FiniteSets, TLC

VARIABLES
    pc,        \* where the shell process is: "prompt", "read", "split",
               \* "tok_loop", "execute", "wait", "loop_check", or "exit_*"
    iter,      \* number of lines getline has returned so far
    input,     \* the line as getline returned it (never modified)
    line,      \* lsh_loop's line buffer, 0-terminated, modified by strtok
    savep,     \* strtok's saved position inside line
    tokens,    \* lsh_split_line's tokens array (-1: slot never written)
    bufsize,   \* lsh_split_line's bufsize: allocated number of slots
    position,  \* lsh_split_line's position
    token,     \* lsh_split_line's token: the last strtok result
    status,    \* lsh_loop's status (-1: not yet assigned)
    cwd,       \* working directory of the shell process
    stdout,    \* number of writes the shell made to standard output
    stderr,    \* number of diagnostic lines on standard error
    outMark,   \* stdout when the current iteration's prompt was printed
    errMark,   \* stderr when the current iteration's prompt was printed
    ran,       \* the handlers lsh_execute called in the current iteration
    launch,    \* what fork/exec did in the current iteration
    children,  \* the shell's child processes: pid -> [state, cwd, reported]
    pid,       \* lsh_launch's pid
    wstatus,   \* lsh_launch's status, as waitpid last wrote it
    exitCode,  \* exit status of the shell process, -1 while it runs
    sigchld    \* disposition of SIGCHLD inherited by the shell

vars == <<pc, iter, input, line, savep, tokens, bufsize, position, token,
          status, cwd, stdout, stderr, outMark, errMark, ran, launch,
          children, pid, wstatus, exitCode, sigchld>>

tokVars == <<line, savep, tokens, bufsize, position, token>>
procVars == <<children, pid, wstatus>>
markVars == <<outMark, errMark>>

-----------------------------------------------------------------------------
(* Bounds of the model *)

\* lines the shell reads in one run
MaxIter == 3
\* the longest lines fill the tokens array this many times
MaxGrow == 2

-----------------------------------------------------------------------------
(* Program constants *)

LSH_TOK_BUFSIZE == 64

\* "\t\r\n\a"
LSH_TOK_DELIM == {9, 13, 10, 7}

\* {"cd", "help", "exit"}
builtin_str == << <<99, 100>>, <<104, 101, 108, 112>>, <<101, 120, 105, 116>> >>

lsh_num_builtis == Len(builtin_str)

-----------------------------------------------------------------------------
(* The environment: standard input, the file system, the search path *)

\* "/home": the directory the shell is started in
StartDir == <<47, 104, 111, 109, 101>>

\* the directories chdir can enter: "/tmp", "/home"
Dirs == {<<47, 116, 109, 112>>, StartDir}

\* the programs execvp finds on the search path: "ls", "a"
Programs == {<<108, 115>>, <<97>>}

\* n fields "a", each followed by a tab, then the newline
TabLine(n) ==
    [i \in 1..(2 * n + 1) |->
        IF i = 2 * n + 1 THEN 10 ELSE IF i % 2 = 1 THEN 97 ELSE 9]

ShortLines ==
    { <<10>>,                                        \* "\n"
      <<32, 32, 10>>,                                \* "  \n"
      <<9, 13, 10>>,                                 \* "\t\r\n"
      <<101, 120, 105, 116, 10>>,                    \* "exit\n"
      <<101, 120, 105, 116, 9, 48, 10>>,             \* "exit\t0\n"
      <<101, 120, 105, 116, 32, 48, 10>>,            \* "exit 0\n"
      <<69, 120, 105, 116, 10>>,                     \* "Exit\n"
      <<99, 100, 10>>,                               \* "cd\n"
      <<99, 100, 9, 47, 116, 109, 112, 10>>,         \* "cd\t/tmp\n"
      <<99, 100, 32, 47, 116, 109, 112, 10>>,        \* "cd /tmp\n"
      <<99, 100, 9, 47, 110, 111, 10>>,              \* "cd\t/no\n"
      <<104, 101, 108, 112, 10>>,                    \* "help\n"
      <<104, 101, 108, 112, 9, 120, 10>>,            \* "help\tx\n"
      <<108, 115, 10>>,                              \* "ls\n"
      <<108, 115>>,                                  \* "ls", input ends
      <<122, 122, 10>>,                              \* "zz\n"
      \* "  ls   -l\t/tmp\n"
      <<32, 32, 108, 115, 32, 32, 32, 45, 108, 9, 47, 116, 109, 112, 10>> }

\* lines of k*64 - 1, k*64 and k*64 + 1 fields
LongLines ==
    { TabLine(k * LSH_TOK_BUFSIZE + d) : k \in 1..MaxGrow, d \in {-1, 0, 1} }

Lines == ShortLines \cup LongLines

-----------------------------------------------------------------------------
(* C strings and strtok *)

\* the C string at pointer p of buf
RECURSIVE CStr(_, _)
CStr(buf, p) == IF buf[p] = 0 THEN <<>> ELSE <<buf[p]>> \o CStr(buf, p + 1)

\* strspn: the first position at or after p that holds no delimiter
RECURSIVE SkipDelims(_, _)
SkipDelims(buf, p) ==
    IF buf[p] # 0 /\ buf[p] \in LSH_TOK_DELIM
    THEN SkipDelims(buf, p + 1) ELSE p

\* strpbrk: the first position at or after p that holds a delimiter or 0
RECURSIVE FindDelim(_, _)
FindDelim(buf, p) ==
    IF buf[p] = 0 \/ buf[p] \in LSH_TOK_DELIM
    THEN p ELSE FindDelim(buf, p + 1)

\* strtok(.., LSH_TOK_DELIM) scanning buf from s: the token it returns (0 for
\* NULL), the buffer with the token's delimiter overwritten by 0, and the
\* position saved for the next call
strtok(buf, s) ==
    LET b == SkipDelims(buf, s) IN
    IF buf[b] = 0
    THEN [token |-> 0, line |-> buf, save |-> b]
    ELSE LET e == FindDelim(buf, b) IN
         IF buf[e] = 0
         THEN [token |-> b, line |-> buf, save |-> e]
         ELSE [token |-> b, line |-> [buf EXCEPT ![e] = 0], save |-> e + 1]

\* number of arguments of args: the slots before the first NULL
ArgCount(args) ==
    IF \E i \in 1..Len(args) : args[i] = 0
    THEN (CHOOSE i \in 1..Len(args) :
              args[i] = 0 /\ \A j \in 1..(i - 1) : args[j] # 0) - 1
    ELSE Len(args)

Argc == ArgCount(tokens)

\* the string args[i - 1] points to
ArgStr(i) == CStr(line, tokens[i])

\* the argument vector as strings
Argv == [i \in 1..Argc |-> ArgStr(i)]

-----------------------------------------------------------------------------
Init ==
    /\ pc = "prompt"
    /\ iter = 0
    /\ input = <<>>
    /\ line = <<>>
    /\ savep = 0
    /\ tokens = <<>>
    /\ bufsize = 0
    /\ position = 0
    /\ token = 0
    /\ status = -1          \* not yet assigned; read only after lsh_execute
    /\ cwd = StartDir
    /\ stdout = 0
    /\ stderr = 0
    /\ outMark = 0
    /\ errMark = 0
    /\ ran = <<>>
    /\ launch = "none"
    /\ children = <<>>
    /\ pid = 0
    /\ wstatus = "uninit"
    /\ exitCode = -1
    /\ sigchld \in {"default", "ignore"}

-----------------------------------------------------------------------------
(* lsh_loop and lsh_read_line *)

\* printf("> ")
Prompt ==
    /\ pc = "prompt"
    /\ pc' = "read"
    /\ stdout' = stdout + 1
    /\ outMark' = stdout + 1
    /\ errMark' = stderr
    /\ ran' = <<>>
    /\ launch' = "none"
    /\ UNCHANGED <<iter, input, tokVars, status, cwd, stderr, procVars,
                   exitCode, sigchld>>

\* getline returns a line
ReadLine ==
    /\ pc = "read"
    /\ iter < MaxIter
    \* a line without its newline is the last of the input
    /\ IF iter = 0 THEN TRUE ELSE input[Len(input)] = 10
    /\ \E l \in Lines :
        /\ input' = l
        /\ line' = l \o <<0>>
    /\ iter' = iter + 1
    /\ pc' = "split"
    /\ UNCHANGED <<savep, tokens, bufsize, position, token, status, cwd,
                   stdout, stderr, markVars, ran, launch, procVars,
                   exitCode, sigchld>>

\* end of input treated as a failure: exit(EXIT_FAILURE)
ReadEof_Failure ==
    /\ pc = "read"
    /\ pc' = "exit_eof"
    /\ exitCode' = 1
    /\ UNCHANGED <<iter, input, tokVars, status, cwd, stdout, stderr,
                   markVars, ran, launch, procVars, sigchld>>

\* getline returns -1 and feof(stdin): exit(EXIT_SUCCESS)
ReadEof ==
    /\ pc = "read"
    /\ pc' = "exit_eof"
    /\ exitCode' = 0
    /\ UNCHANGED <<iter, input, tokVars, status, cwd, stdout, stderr,
                   markVars, ran, launch, procVars, sigchld>>

\* getline returns -1 without end of file: perror, exit(EXIT_FAILURE)
ReadError ==
    /\ pc = "read"
    /\ pc' = "exit_readerr"
    /\ stderr' = stderr + 1
    /\ exitCode' = 1
    /\ UNCHANGED <<iter, input, tokVars, status, cwd, stdout, markVars,
                   ran, launch, procVars, sigchld>>

\* free(line); free(args); while (status)
LoopCheck ==
    /\ pc = "loop_check"
    /\ line' = <<>>
    /\ tokens' = <<>>
    /\ IF status # 0
       THEN /\ pc' = "prompt"
            /\ exitCode' = exitCode
       ELSE /\ pc' = "exit_main"
            /\ exitCode' = 0
    /\ UNCHANGED <<iter, input, savep, bufsize, position, token, status,
                   cwd, stdout, stderr, markVars, ran, launch, procVars,
                   sigchld>>

-----------------------------------------------------------------------------
(* lsh_split_line *)

\* a block of n slots as malloc and realloc hand it out: nothing written
FreshSlots(n) == [i \in 1..n |-> -1]

\* the growth test written with > for >=
NeedsGrow_Late(pos, size) == pos > size

\* if (position >= bufsize)
NeedsGrow(pos, size) == pos >= size

\* realloc(tokens, bufsize * sizeof(char*)) with bufsize raised by
\* LSH_TOK_BUFSIZE: the old slots keep their contents
Realloc(toks) == toks \o FreshSlots(LSH_TOK_BUFSIZE)

\* malloc returns NULL: diagnostic, exit(EXIT_FAILURE)
SplitMallocFail ==
    /\ pc = "split"
    /\ pc' = "exit_alloc"
    /\ stderr' = stderr + 1
    /\ exitCode' = 1
    /\ UNCHANGED <<iter, input, tokVars, status, cwd, stdout, markVars,
                   ran, launch, procVars, sigchld>>

\* malloc succeeds; the first strtok(line, LSH_TOK_DELIM)
SplitBegin ==
    /\ pc = "split"
    /\ bufsize' = LSH_TOK_BUFSIZE
    /\ position' = 0
    /\ tokens' = FreshSlots(LSH_TOK_BUFSIZE)
    /\ LET r == strtok(line, 1) IN
        /\ token' = r.token
        /\ line' = r.line
        /\ savep' = r.save
    /\ pc' = "tok_loop"
    /\ UNCHANGED <<iter, input, status, cwd, stdout, stderr, markVars,
                   ran, launch, procVars, exitCode, sigchld>>

\* one turn of the while loop: store the token, grow the array when it is
\* full, strtok(NULL, LSH_TOK_DELIM)
TokStore ==
    /\ pc = "tok_loop"
    /\ token # 0
    /\ position' = position + 1
    /\ LET stored == [tokens EXCEPT ![position + 1] = token] IN
        IF NeedsGrow(position + 1, bufsize)
        THEN /\ bufsize' = bufsize + LSH_TOK_BUFSIZE
             /\ tokens' = Realloc(stored)
        ELSE /\ bufsize' = bufsize
             /\ tokens' = stored
    /\ LET r == strtok(line, savep) IN
        /\ token' = r.token
        /\ line' = r.line
        /\ savep' = r.save
    /\ pc' = "tok_loop"
    /\ UNCHANGED <<iter, input, status, cwd, stdout, stderr, markVars,
                   ran, launch, procVars, exitCode, sigchld>>

\* the array is full and realloc returns NULL: diagnostic, exit(EXIT_FAILURE)
TokGrowFail ==
    /\ pc = "tok_loop"
    /\ token # 0
    /\ NeedsGrow(position + 1, bufsize)
    /\ position' = position + 1
    /\ bufsize' = bufsize + LSH_TOK_BUFSIZE
    /\ tokens' = <<>>
    /\ pc' = "exit_alloc"
    /\ stderr' = stderr + 1
    /\ exitCode' = 1
    /\ UNCHANGED <<iter, input, line, savep, token, status, cwd, stdout,
                   markVars, ran, launch, procVars, sigchld>>

\* strtok returned NULL: tokens[position] = NULL; return tokens
SplitEnd ==
    /\ pc = "tok_loop"
    /\ token = 0
    /\ tokens' = [tokens EXCEPT ![position + 1] = 0]
    /\ pc' = "execute"
    /\ UNCHANGED <<iter, input, line, savep, bufsize, position, token,
                   status, cwd, stdout, stderr, markVars, ran, launch,
                   procVars, exitCode, sigchld>>

-----------------------------------------------------------------------------
(* The built-ins *)

\* the part of the state no built-in and no launch touches
execFrame == <<iter, input, tokVars, markVars, exitCode, sigchld>>

\* lsh_cd changing to the start directory when it has no argument
lsh_cd_Home ==
    /\ IF tokens[2] = 0
       THEN /\ stderr' = stderr + 1
            /\ cwd' = StartDir
       ELSE IF ArgStr(2) \in Dirs
            THEN /\ cwd' = ArgStr(2)
                 /\ stderr' = stderr
            ELSE /\ stderr' = stderr + 1
                 /\ cwd' = cwd
    /\ status' = 1
    /\ ran' = Append(ran, "lsh_cd")
    /\ pc' = "loop_check"
    /\ UNCHANGED <<execFrame, stdout, launch, procVars>>

\* lsh_cd
lsh_cd ==
    /\ IF tokens[2] = 0
       THEN /\ stderr' = stderr + 1      \* lsh: expected argument to "cd"
            /\ cwd' = cwd
       ELSE IF ArgStr(2) \in Dirs        \* chdir(args[1]) returns 0
            THEN /\ cwd' = ArgStr(2)
                 /\ stderr' = stderr
            ELSE /\ stderr' = stderr + 1 \* perror("lsh")
                 /\ cwd' = cwd
    /\ status' = 1
    /\ ran' = Append(ran, "lsh_cd")
    /\ pc' = "loop_check"
    /\ UNCHANGED <<execFrame, stdout, launch, procVars>>

\* lsh_help: the banner, the built-in names, the closing line
lsh_help ==
    /\ stdout' = stdout + 3 + lsh_num_builtis + 1
    /\ status' = 1
    /\ ran' = Append(ran, "lsh_help")
    /\ pc' = "loop_check"
    /\ UNCHANGED <<execFrame, cwd, stderr, launch, procVars>>

\* lsh_exit
lsh_exit ==
    /\ status' = 0
    /\ ran' = Append(ran, "lsh_exit")
    /\ pc' = "loop_check"
    /\ UNCHANGED <<execFrame, cwd, stdout, stderr, launch, procVars>>

-----------------------------------------------------------------------------
(* lsh_launch and the child processes *)

\* the pid fork gives the new child: one no child of the shell has
NewPid == CHOOSE p \in 1..(Cardinality(DOMAIN children) + 1) :
              p \notin DOMAIN children

\* children without p
Without(p) == [q \in DOMAIN children \ {p} |-> children[q]]

\* child p ends, how = "exited" or "signaled": it stays a zombie until the
\* shell waits for it, unless SIGCHLD is ignored
Terminated(p, how) ==
    IF sigchld = "ignore"
    THEN Without(p)
    ELSE [children EXCEPT ![p].state = how]

\* the do-while ending on any status waitpid reports
WaitDone_AnyReport(ws) == ws \in {"exited", "signaled", "stopped"}

\* the do-while condition of lsh_launch is false:
\* WIFEXITED(status) || WIFSIGNALED(status)
WaitDone(ws) == ws \in {"exited", "signaled"}

\* lsh_launch up to its first waitpid: fork fails (perror, return 1), or
\* fork succeeds and the parent goes on to wait for the child
lsh_launch ==
    /\ ran' = Append(ran, "lsh_launch")
    /\ \/ /\ children' = (NewPid :> [state |-> "forked", cwd |-> cwd,
                                     argv0 |-> ArgStr(1), reported |-> FALSE])
                          @@ children
          /\ pid' = NewPid
          /\ wstatus' = "uninit"
          /\ launch' = "forked"
          /\ pc' = "wait"
          /\ UNCHANGED <<stderr, status>>
       \/ /\ stderr' = stderr + 1        \* pid < 0: perror("lsh")
          /\ launch' = "fork_failed"
          /\ status' = 1
          /\ pc' = "loop_check"
          /\ UNCHANGED procVars
    /\ UNCHANGED <<execFrame, cwd, stdout>>

\* waitpid returns for a child that ended: it is reaped, the loop ends and
\* lsh_launch returns 1
WaitReap ==
    /\ pc = "wait"
    /\ pid \in DOMAIN children
    /\ children[pid].state \in {"exited", "signaled"}
    /\ wstatus' = children[pid].state
    /\ children' = Without(pid)
    /\ IF WaitDone(children[pid].state)
       THEN status' = 1 /\ pc' = "loop_check"
       ELSE status' = status /\ pc' = "wait"
    /\ UNCHANGED <<execFrame, cwd, stdout, stderr, ran, launch, pid>>

\* waitpid (WUNTRACED) returns for a child that stopped
WaitStopped ==
    /\ pc = "wait"
    /\ pid \in DOMAIN children
    /\ children[pid].state = "stopped"
    /\ ~children[pid].reported
    /\ wstatus' = "stopped"
    /\ children' = [children EXCEPT ![pid].reported = TRUE]
    /\ IF WaitDone("stopped")
       THEN status' = 1 /\ pc' = "loop_check"
       ELSE status' = status /\ pc' = "wait"
    /\ UNCHANGED <<execFrame, cwd, stdout, stderr, ran, launch, pid>>

\* waitpid returns -1 (ECHILD: the child ended and, SIGCHLD being ignored,
\* is gone) and leaves status as it was; a status never written is read
\* uninitialised, and the loop may end or go on
WaitEchild ==
    /\ pc = "wait"
    /\ pid \notin DOMAIN children
    /\ \/ /\ wstatus = "uninit" \/ WaitDone(wstatus)
          /\ status' = 1
          /\ pc' = "loop_check"
       \/ /\ wstatus = "uninit" \/ ~WaitDone(wstatus)
          /\ UNCHANGED <<status, pc>>
    /\ UNCHANGED <<execFrame, cwd, stdout, stderr, ran, launch, procVars>>

\* the child exiting after a failed execvp without the perror
ChildExec_Silent(p) ==
    /\ children[p].state = "forked"
    /\ IF children[p].argv0 \in Programs
       THEN /\ children' = [children EXCEPT ![p].state = "running"]
            /\ launch' = "exec_ok"
       ELSE /\ children' = Terminated(p, "exited")
            /\ launch' = "exec_failed"
    /\ UNCHANGED <<pc, execFrame, status, cwd, stdout, stderr, ran, pid,
                   wstatus>>

\* the child calls execvp(args[0], args): the program runs, or execvp
\* returns -1, the child writes perror("lsh") and calls exit(EXIT_FAILURE)
ChildExec(p) ==
    /\ children[p].state = "forked"
    /\ IF children[p].argv0 \in Programs
       THEN /\ children' = [children EXCEPT ![p].state = "running"]
            /\ launch' = "exec_ok"
            /\ stderr' = stderr
       ELSE /\ children' = Terminated(p, "exited")
            /\ launch' = "exec_failed"
            /\ stderr' = stderr + 1
    /\ UNCHANGED <<pc, execFrame, status, cwd, stdout, ran, pid, wstatus>>

childFrame == <<pc, execFrame, status, cwd, stdout, stderr, ran, launch,
                pid, wstatus>>

\* the program the child runs ends by itself
ChildExit(p) ==
    /\ children[p].state = "running"
    /\ children' = Terminated(p, "exited")
    /\ UNCHANGED childFrame

\* a signal ends the child
ChildKill(p) ==
    /\ children[p].state \in {"forked", "running", "stopped"}
    /\ children' = Terminated(p, "signaled")
    /\ UNCHANGED childFrame

\* a signal stops the child
ChildStop(p) ==
    /\ children[p].state = "running"
    /\ children' = [children EXCEPT ![p].state = "stopped",
                                     ![p].reported = FALSE]
    /\ UNCHANGED childFrame

\* SIGCONT resumes the child
ChildCont(p) ==
    /\ children[p].state = "stopped"
    /\ children' = [children EXCEPT ![p].state = "running"]
    /\ UNCHANGED childFrame

-----------------------------------------------------------------------------
(* lsh_execute *)

\* the for loop stopping one name short of the end of builtin_str
BuiltinIndex_Short(s) ==
    IF \E i \in 1..(lsh_num_builtis - 1) : builtin_str[i] = s
    THEN CHOOSE i \in 1..(lsh_num_builtis - 1) :
             /\ builtin_str[i] = s
             /\ \A j \in 1..(i - 1) : builtin_str[j] # s
    ELSE 0

\* the for loop over builtin_str: the index of the first name equal to s,
\* 0 when there is none
BuiltinIndex(s) ==
    IF \E i \in 1..lsh_num_builtis : builtin_str[i] = s
    THEN CHOOSE i \in 1..lsh_num_builtis :
             /\ builtin_str[i] = s
             /\ \A j \in 1..(i - 1) : builtin_str[j] # s
    ELSE 0

\* (*builtin_func[i])(args)
builtin_func(i) ==
    CASE i = 1 -> lsh_cd
      [] i = 2 -> lsh_help
      [] i = 3 -> lsh_exit

lsh_execute ==
    /\ pc = "execute"
    /\ IF tokens[1] = 0
       THEN /\ status' = 1
            /\ pc' = "loop_check"
            /\ UNCHANGED <<execFrame, cwd, stdout, stderr, ran, launch,
                           procVars>>
       ELSE IF BuiltinIndex(ArgStr(1)) # 0
            THEN builtin_func(BuiltinIndex(ArgStr(1)))
            ELSE lsh_launch

-----------------------------------------------------------------------------
Next ==
    \/ Prompt
    \/ ReadLine
    \/ ReadEof
    \/ ReadError
    \/ SplitMallocFail
    \/ SplitBegin
    \/ TokStore
    \/ TokGrowFail
    \/ SplitEnd
    \/ lsh_execute
    \/ WaitReap
    \/ WaitStopped
    \/ WaitEchild
    \/ LoopCheck
    \/ \E p \in DOMAIN children : ChildExec(p)
    \/ \E p \in DOMAIN children : ChildExit(p)
    \/ \E p \in DOMAIN children : ChildKill(p)
    \/ \E p \in DOMAIN children : ChildStop(p)
    \/ \E p \in DOMAIN children : ChildCont(p)

Spec == Init /\ [][Next]_vars

-----------------------------------------------------------------------------
(* What the specification says of a line, stated on the line as it was read *)

\* space, tab, newline, carriage return, bell
FieldDelims == {32, 9, 10, 13, 7}

\* the positions of s where a field begins, for the delimiter set D
FieldStarts(s, D) ==
    {i \in 1..Len(s) : s[i] \notin D /\ (IF i = 1 THEN TRUE ELSE s[i - 1] \in D)}

\* the field of s that begins at position i
FieldAt(s, i, D) ==
    LET stops == {j \in i..Len(s) : s[j] \in D}
        last == IF stops = {} THEN Len(s)
                ELSE (CHOOSE j \in stops : \A m \in stops : j <= m) - 1
    IN SubSeq(s, i, last)

\* the non-empty fields of s in order
Fields(s, D) ==
    LET starts == FieldStarts(s, D)
        nth(k) == CHOOSE i \in starts : Cardinality({j \in starts : j < i}) = k - 1
    IN [k \in 1..Cardinality(starts) |-> FieldAt(s, nth(k), D)]

\* the shell is between the tokenizer's return and the end of the iteration
Dispatching == pc \in {"execute", "wait", "loop_check"}

\* lsh_execute was entered in this iteration
Dispatched == pc \in {"wait", "loop_check"}

\* the children that have not ended
Alive == {p \in DOMAIN children :
            children[p].state \in {"forked", "running", "stopped"}}

\* a child was created in this iteration
ChildCreated == launch \in {"forked", "exec_ok", "exec_failed"}

-----------------------------------------------------------------------------
(* C1 *)

\* C1: the token sequence lsh_split_line returns is the sequence of
\* non-empty fields of the line split on runs of space, tab, newline,
\* carriage return and bell.
C1_TokensAreWhitespaceFields ==
    pc = "execute" => Argv = Fields(input, FieldDelims)

-----------------------------------------------------------------------------
(* C2 *)

\* C2: a line of spaces, tabs, newlines and carriage returns only gives an
\* empty token sequence, the dispatcher returns 1, no child is created and
\* nothing is written to standard output or standard error.
C2_BlankLineIsNoOp ==
    (Dispatching /\ \A i \in 1..Len(input) : input[i] \in {32, 9, 10, 13})
        => /\ Argc = 0
           /\ ran = <<>>
           /\ launch = "none"
           /\ stdout = outMark
           /\ stderr = errMark
           /\ pc = "loop_check" => status = 1

-----------------------------------------------------------------------------
(* C3 *)

\* the first whitespace-separated field of the line is "exit"
IsExitLine ==
    LET f == Fields(input, FieldDelims) IN
    Len(f) >= 1 /\ f[1] = <<101, 120, 105, 116>>

\* C3: a line whose command is exit, with or without arguments, makes the
\* dispatcher return 0 and the process end with status 0; nothing else
\* returns 0.
C3_ExitStopsLoop ==
    /\ (Dispatched /\ IsExitLine) => (pc = "loop_check" /\ status = 0)
    /\ (pc = "loop_check" /\ status = 0) => IsExitLine
    /\ pc = "exit_main" => (exitCode = 0 /\ IsExitLine)

-----------------------------------------------------------------------------
(* C4 *)

\* C4: after a line "cd <dir>" with a directory that can be entered the
\* working directory is <dir>, and a child starts in the shell's working
\* directory.
C4_CdSetsWorkingDirectory ==
    /\ Dispatched =>
          LET f == Fields(input, FieldDelims) IN
          (Len(f) = 2 /\ f[1] = <<99, 100>> /\ f[2] \in Dirs) => cwd = f[2]
    /\ \A p \in Alive : children[p].cwd = cwd

-----------------------------------------------------------------------------
(* C5 *)

\* C5: the working directory changes only in a step that runs cd with an
\* argument chdir accepts, and then it becomes that argument; cd without an
\* argument, a cd that fails, help, exit, a blank line and a launch leave it
\* as it is.
C5_OnlySuccessfulCdChangesCwd ==
    [][cwd' # cwd =>
          /\ pc = "execute"
          /\ Argc >= 2
          /\ ArgStr(1) = <<99, 100>>
          /\ ArgStr(2) \in Dirs
          /\ cwd' = ArgStr(2)]_vars

\* a cd that failed, after an earlier one moved the shell to /tmp, left the
\* shell in /tmp
C5_Witness ==
    /\ pc = "loop_check"
    /\ ran = <<"lsh_cd">>
    /\ stderr = errMark + 1
    /\ cwd = <<47, 116, 109, 112>>

-----------------------------------------------------------------------------
(* C6 *)

\* a recoverable command error happened in this iteration
CommandError ==
    \/ ran = <<"lsh_cd">> /\ Argc = 1
    \/ ran = <<"lsh_cd">> /\ Argc >= 2 /\ ArgStr(2) \notin Dirs
    \/ launch = "fork_failed"
    \/ launch = "exec_failed"

\* C6: when the dispatcher has returned after a recoverable command error,
\* exactly one diagnostic line was written in the iteration, the result is
\* 1 and the shell has not exited; the loop then goes to the next prompt;
\* lsh_launch returns 1 whenever it returns.
C6_RecoverableErrors ==
    /\ []((pc = "loop_check" /\ CommandError) =>
            (stderr = errMark + 1 /\ status = 1 /\ exitCode = -1))
    /\ []((pc = "loop_check" /\ ran = <<"lsh_launch">>) => status = 1)
    /\ [][(pc = "loop_check" /\ CommandError) =>
            (pc' = "prompt" /\ exitCode' = -1)]_vars

\* the child of a launch wrote its diagnostic and the launcher returned
C6_Witness ==
    /\ pc = "loop_check"
    /\ launch = "exec_failed"
    /\ stderr = errMark + 1
    /\ status = 1

-----------------------------------------------------------------------------
(* C7 *)

\* C7: the shell has at most one child that has not ended, and none unless
\* it is waiting inside lsh_launch: the wait ends only when the child has
\* exited or was killed, not when it stopped.
C7_WaitsForChild ==
    /\ Cardinality(Alive) <= 1
    /\ pc # "wait" => Alive = {}

\* waitpid reported the stop of the child and the shell still waits
C7_Witness ==
    /\ pc = "wait"
    /\ wstatus = "stopped"
    /\ pid \in Alive
    /\ children[pid].reported

-----------------------------------------------------------------------------
(* C8 *)

\* the first token is one of "cd", "help", "exit"
FirstIsBuiltin ==
    ArgStr(1) \in {<<99, 100>>, <<104, 101, 108, 112>>, <<101, 120, 105, 116>>}

\* what the handler named by the first token is and returns
HandlerOfFirst ==
    IF ArgStr(1) = <<99, 100>> THEN [name |-> "lsh_cd", result |-> 1]
    ELSE IF ArgStr(1) = <<104, 101, 108, 112>>
         THEN [name |-> "lsh_help", result |-> 1]
         ELSE [name |-> "lsh_exit", result |-> 0]

\* C8 as stated: a child is created exactly when the first token is no
\* built-in name.
C8_ChildIffNotBuiltin ==
    (Dispatched /\ Argc > 0) => (ChildCreated <=> ~FirstIsBuiltin)

\* C8: for a non-empty token sequence fork is attempted exactly when the
\* first token is no built-in name, and a child exists exactly when that
\* fork succeeded; for a built-in name exactly its handler ran, once, its
\* return value is the result and no fork was attempted.
C8_Dispatch ==
    (Dispatched /\ Argc > 0) =>
        /\ (launch # "none") <=> ~FirstIsBuiltin
        /\ ChildCreated <=> (~FirstIsBuiltin /\ launch # "fork_failed")
        /\ ~FirstIsBuiltin => ran = <<"lsh_launch">>
        /\ FirstIsBuiltin =>
              /\ ran = <<HandlerOfFirst.name>>
              /\ status = HandlerOfFirst.result
              /\ pc = "loop_check"
              /\ children = <<>>

\* fork failed for an external command: it was attempted, no child exists
C8_Witness ==
    /\ pc = "loop_check"
    /\ Argc > 0
    /\ ~FirstIsBuiltin
    /\ launch = "fork_failed"

-----------------------------------------------------------------------------
(* C9 *)

\* C9: the shell has exited only by end of input (status 0, nothing
\* dispatched or written since the prompt), by a read error or an allocation
\* failure of the tokenizer (one diagnostic, nonzero status, nothing
\* dispatched), or by exit (status 0); it exits only from the read, the
\* tokenizer or the loop condition, and a nonzero result of the dispatcher
\* leads to the next prompt and read.
C9_Termination ==
    /\ [](exitCode # -1 =>
            \/ /\ pc = "exit_eof"
               /\ exitCode = 0
               /\ ran = <<>> /\ stderr = errMark /\ stdout = outMark
            \/ /\ pc \in {"exit_readerr", "exit_alloc"}
               /\ exitCode # 0
               /\ ran = <<>> /\ stderr = errMark + 1
            \/ /\ pc = "exit_main"
               /\ exitCode = 0
               /\ status = 0 /\ ran = <<"lsh_exit">>)
    /\ [](pc \in {"exit_eof", "exit_readerr", "exit_alloc", "exit_main"}
            <=> exitCode # -1)
    /\ [][(pc = "loop_check" /\ status # 0) => pc' = "prompt"]_vars
    /\ [][pc = "prompt" => pc' = "read"]_vars
    /\ [][exitCode' # exitCode =>
            pc \in {"read", "split", "tok_loop", "loop_check"}]_vars

\* end of input after a command has run
C9_Witness ==
    /\ pc = "exit_eof"
    /\ exitCode = 0
    /\ iter >= 1
    /\ cwd # StartDir

-----------------------------------------------------------------------------
(* C10 *)

====
